---- MODULE Spec2Model ----
(***************************************************************************)
(* A model of draco's PLY decoder (src/draco/io/ply_decoder.cc): the       *)
(* orchestration of one decode call, the fan triangulation of the face     *)
(* element and the fixed sequence of vertex attribute groups.              *)
(*                                                                         *)
(* The parsed property table (PlyReader / PlyElement / PlyProperty) and    *)
(* the output container (PointCloud / Mesh) are collaborators of the       *)
(* decoder; they are modelled by the small operators of the first two      *)
(* sections.  Everything from CountNumTriangles on follows the decoder's   *)
(* code statement by statement.                                            *)
(***************************************************************************)
EXTENDS Integers, Sequences, FiniteSets, TLC

VARIABLES
    table,             \* the property table ply_reader.Read() yields for the buffer
    geom,              \* the output geometries handed in by the caller, by object id
    out_mesh_,         \* PlyDecoder::out_mesh_ (0 is nullptr)
    out_point_cloud_,  \* PlyDecoder::out_point_cloud_ (0 is nullptr)
    pc,                \* position of the decoder inside the current call
    status,            \* Status returned by the last call that returned
    calls_left,        \* calls the caller is still going to make
    face_bound,        \* history: argument of the first SetNumFaces of the call
    set_face_ids,      \* history: face indices passed to SetFace, in call order
    steps,             \* history: steps the current call has run, in order
    ub                 \* history: an absent property has been dereferenced

vars == << table, geom, out_mesh_, out_point_cloud_, pc, status, calls_left,
           face_bound, set_face_ids, steps, ub >>

----------------------------------------------------------------------------
(* Bounds of the model.                                                    *)

MaxVerts == 2
MaxSalt == 1
MaxPolys == 2
MaxPolyLen == 5
MaxIndex == 2
MaxCalls == 2

----------------------------------------------------------------------------
(* Data types and property names.                                          *)

DT_FLOAT32 == "DT_FLOAT32"
DT_INT32 == "DT_INT32"
DT_UINT8 == "DT_UINT8"
DataTypes == {DT_FLOAT32, DT_INT32, DT_UINT8}

PositionNames == << "x", "y", "z" >>
NormalNames == << "nx", "ny", "nz" >>
FdcNames == << "f_dc_0", "f_dc_1", "f_dc_2" >>
FRestNames ==
    << "f_rest_0", "f_rest_1", "f_rest_2", "f_rest_3", "f_rest_4",
       "f_rest_5", "f_rest_6", "f_rest_7", "f_rest_8", "f_rest_9",
       "f_rest_10", "f_rest_11", "f_rest_12", "f_rest_13", "f_rest_14",
       "f_rest_15", "f_rest_16", "f_rest_17", "f_rest_18", "f_rest_19",
       "f_rest_20", "f_rest_21", "f_rest_22", "f_rest_23", "f_rest_24",
       "f_rest_25", "f_rest_26", "f_rest_27", "f_rest_28", "f_rest_29",
       "f_rest_30", "f_rest_31", "f_rest_32", "f_rest_33", "f_rest_34",
       "f_rest_35", "f_rest_36", "f_rest_37", "f_rest_38", "f_rest_39",
       "f_rest_40", "f_rest_41", "f_rest_42", "f_rest_43", "f_rest_44" >>
OpacityNames == << "opacity" >>
ScaleNames == << "scale_0", "scale_1", "scale_2" >>
RotNames == << "rot_0", "rot_1", "rot_2", "rot_3" >>
ColorNames == << "red", "green", "blue", "alpha" >>

FRestChecked == SubSeq(FRestNames, 1, 3)

AllNames ==
    PositionNames \o NormalNames \o FdcNames \o FRestNames \o OpacityNames
    \o ScaleNames \o RotNames \o ColorNames

Range(s) == { s[k] : k \in DOMAIN s }

----------------------------------------------------------------------------
(* The property table: elements, properties and their data.                *)

NoElement == [present |-> FALSE, num_entries |-> 0, props |-> << >>]

\* PlyElement::GetPropertyByName: the property of that name, 0 for nullptr.
GetPropertyByName(element, name) ==
    LET hits == { k \in DOMAIN element.props : element.props[k].name = name }
    IN  IF hits = {} THEN 0
        ELSE CHOOSE k \in hits : \A j \in hits : j <= k

\* PlyReader::GetElementByName
GetElementByName(t, name) ==
    IF name = "face" THEN t.face ELSE t.vertex

NameCodes ==
    [n \in Range(AllNames) |-> CHOOSE k \in DOMAIN AllNames : AllNames[k] = n]

NameCode(name) == NameCodes[name]

TwoTo24 == 2 ^ 24

\* The stored value of scalar property `prop` at entry i (0-based).  Small
\* values for salt 0; for larger salts int32 properties hold values above
\* 2^24, which float32 cannot all represent.
DataAt(prop, i, salt) ==
    LET small == NameCode(prop.name) * 7 + i * 3 + salt
    IN  CASE prop.data_type = DT_UINT8 -> small % 256
          [] prop.data_type = DT_INT32 ->
                IF salt = 0 THEN small ELSE TwoTo24 + small
          [] OTHER -> small

\* static_cast<float>(int32): exact up to 2^24, round-to-nearest-even on the
\* two-unit grid between 2^24 and 2^25.
StaticCastFloat(v) ==
    IF v <= TwoTo24 THEN v
    ELSE IF v % 2 = 0 THEN v
    ELSE IF (v + 1) % 4 = 0 THEN v + 1 ELSE v - 1

\* PlyPropertyReader<T>::ReadValue: the stored value converted to T.
ConvertValue(from, to, v) ==
    CASE to = DT_FLOAT32 /\ from = DT_INT32 -> StaticCastFloat(v)
      [] to = DT_UINT8 -> v % 256
      [] OTHER -> v

ReadValue(element, p, to, i, salt) ==
    ConvertValue(element.props[p].data_type, to,
                 DataAt(element.props[p], i, salt))

\* A list property keeps its entries back to back in one data array.
RECURSIVE FlatData(_)
FlatData(lists) ==
    IF lists = << >> THEN << >>
    ELSE Head(lists) \o FlatData(Tail(lists))

\* PlyProperty::GetListEntryNumValues (entry i is 0-based)
GetListEntryNumValues(prop, i) == Len(prop.lists[i + 1])

\* PlyProperty::GetListEntryOffset
GetListEntryOffset(prop, i) == Len(FlatData(SubSeq(prop.lists, 1, i)))

\* PlyPropertyReader<PointIndex::ValueType>::ReadValue on the list's data
\* array (value_id is 0-based); every stored index is in range of uint32.
ReadIndex(prop, value_id) == FlatData(prop.lists)[value_id + 1]

----------------------------------------------------------------------------
(* The output container: PointCloud / Mesh.                                *)

EmptyGeometry == [num_points |-> 0, attributes |-> << >>, faces |-> << >>]

DefaultFace == << 0, 0, 0 >>

\* Mesh::SetNumFaces: faces_.resize(num_faces)
SetNumFaces(faces, n) ==
    IF n <= Len(faces) THEN SubSeq(faces, 1, n)
    ELSE faces \o [k \in 1..(n - Len(faces)) |-> DefaultFace]

\* GeometryAttribute::Init followed by PointCloud::AddAttribute: the new
\* attribute gets the next free id, which is its position in the list.
GeometryAttribute(semantic, num_components, data_type, normalized, values) ==
    [ attribute_type |-> semantic, num_components |-> num_components,
      data_type |-> data_type, normalized |-> normalized, values |-> values ]

AddAttribute(g, va) == [g EXCEPT !.attributes = Append(@, va)]

\* The id PointCloud::AddAttribute returned for the k-th attribute of the list.
AttId(k) == k - 1

----------------------------------------------------------------------------
(* Face decoding.                                                          *)

RECURSIVE CountLoop(_, _, _, _)
CountLoop(face_element, vertex_indices, i, num_triangles) ==
    IF i >= face_element.num_entries THEN num_triangles
    ELSE LET list_size == GetListEntryNumValues(vertex_indices, i)
         IN  IF list_size < 3
             THEN CountLoop(face_element, vertex_indices, i + 1, num_triangles)
             ELSE CountLoop(face_element, vertex_indices, i + 1,
                            num_triangles + (list_size - 2))

RECURSIVE CountAllLoop(_, _, _, _)
CountAllLoop(face_element, vertex_indices, i, num_triangles) ==
    IF i >= face_element.num_entries THEN num_triangles
    ELSE CountAllLoop(face_element, vertex_indices, i + 1,
             num_triangles + (GetListEntryNumValues(vertex_indices, i) - 2))

\* CountNumTriangles without the list_size < 3 test.
CountNumTrianglesNoSkip(face_element, vertex_indices) ==
    LET n == CountAllLoop(face_element, vertex_indices, 0, 0)
    IN  IF n < 0 THEN 0 ELSE n

CountNumTriangles(face_element, vertex_indices) ==
    CountLoop(face_element, vertex_indices, 0, 0)

\* The fan's triangle read without advancing by ti.
FanTriangleStuck(vertex_indices, list_offset, ti) ==
    << ReadIndex(vertex_indices, list_offset),
       ReadIndex(vertex_indices, list_offset + 1),
       ReadIndex(vertex_indices, list_offset + 2) >>

\* face[0] and the inner loop over c = 1, 2 of triangle ti.
FanTriangle(vertex_indices, list_offset, ti) ==
    << ReadIndex(vertex_indices, list_offset),
       ReadIndex(vertex_indices, list_offset + ti + 1),
       ReadIndex(vertex_indices, list_offset + ti + 2) >>

\* Mesh::SetFace(face_index, face) followed by face_index++.  A face index
\* outside the allocated faces is a write past the end of the vector.
SetFace(st, face) ==
    [ faces |-> IF st.face_index < Len(st.faces)
                THEN [st.faces EXCEPT ![st.face_index + 1] = face]
                ELSE st.faces,
      face_index |-> st.face_index + 1,
      ids |-> Append(st.ids, st.face_index),
      oob |-> st.oob \/ st.face_index >= Len(st.faces) ]

RECURSIVE TriangleLoop(_, _, _, _, _)
TriangleLoop(vertex_indices, list_offset, num_triangles, ti, st) ==
    IF ti >= num_triangles THEN st
    ELSE TriangleLoop(vertex_indices, list_offset, num_triangles, ti + 1,
                      SetFace(st, FanTriangle(vertex_indices, list_offset, ti)))

RECURSIVE PolygonLoop(_, _, _, _)
PolygonLoop(vertex_indices, num_polygons, i, st) ==
    IF i >= num_polygons THEN st
    ELSE LET list_offset == GetListEntryOffset(vertex_indices, i)
             list_size == GetListEntryNumValues(vertex_indices, i)
         IN  IF list_size < 3
             THEN PolygonLoop(vertex_indices, num_polygons, i + 1, st)
             ELSE PolygonLoop(vertex_indices, num_polygons, i + 1,
                      TriangleLoop(vertex_indices, list_offset, list_size - 2,
                                   0, st))

\* The lookup falling back to "vertex_index" also when "vertex_indices" is
\* there but is not a list.
FaceIndexPropertyPreferList(face_element) ==
    LET first == GetPropertyByName(face_element, "vertex_indices")
    IN  IF first # 0 /\ face_element.props[first].is_list THEN first
        ELSE GetPropertyByName(face_element, "vertex_index")

\* The face index property: "vertex_indices", else "vertex_index".
FaceIndexProperty(face_element) ==
    IF GetPropertyByName(face_element, "vertex_indices") # 0
    THEN GetPropertyByName(face_element, "vertex_indices")
    ELSE GetPropertyByName(face_element, "vertex_index")

\* What DecodeFaceData returns when it leaves the mesh alone.
Untouched(st, faces) ==
    [ status |-> st, faces |-> faces, bound |-> -1, ids |-> << >>,
      oob |-> FALSE ]

\* Lines 100-137: DecodeFaceData on a face element that exists.
DecodePresentFaceData(face_element, faces) ==
    LET p == FaceIndexProperty(face_element)
    IN  IF p = 0 \/ ~face_element.props[p].is_list
        THEN Untouched("No faces defined", faces)
        ELSE
          LET vertex_indices == face_element.props[p]
              bound == CountNumTriangles(face_element, vertex_indices)
              st == PolygonLoop(vertex_indices, face_element.num_entries, 0,
                        [ faces |-> SetNumFaces(faces, bound), face_index |-> 0,
                          ids |-> << >>, oob |-> FALSE ])
          IN  [ status |-> "OK",
                faces |-> SetNumFaces(st.faces, st.face_index),
                bound |-> bound, ids |-> st.ids, oob |-> st.oob ]

\* DecodeFaceData treating a missing face element as an error.
DecodeFaceDataFacesRequired(face_element, faces) ==
    IF ~face_element.present THEN Untouched("No faces defined", faces)
    ELSE DecodePresentFaceData(face_element, faces)

\* PlyDecoder::DecodeFaceData on the mesh's face list: the status it
\* returns, the face list it leaves and what it passed to the mesh.
DecodeFaceData(face_element, faces) ==
    IF ~face_element.present THEN Untouched("OK", faces)
    ELSE DecodePresentFaceData(face_element, faces)

----------------------------------------------------------------------------
(* Vertex attribute decoding.                                              *)

\* The GetPropertyByName lookups of one group, in the group's order.
PropsOf(element, names) ==
    [k \in DOMAIN names |-> GetPropertyByName(element, names[k])]

AllPresent(ps) == \A k \in DOMAIN ps : ps[k] # 0

AllOfType(element, ps, dt) ==
    \A k \in DOMAIN ps : element.props[ps[k]].data_type = dt

\* PlyDecoder::ReadPropertiesToAttribute<T>, and the per-group loops written
\* out in DecodeVertexData: value i of the attribute is the tuple of the
\* properties' values at entry i, in the order of `properties`.
ReadPropertiesToAttribute(element, properties, T, num_vertices, salt) ==
    [i \in 1..num_vertices |->
        [k \in DOMAIN properties |->
            ReadValue(element, properties[k], T, i - 1, salt)]]

\* The position block with the type checks dropped: the attribute is added
\* with x's type whatever y and z are.
DecodePositionUnchecked(g, element, salt) ==
    LET ps == PropsOf(element, PositionNames)
        n == element.num_entries
    IN  IF ~AllPresent(ps)
        THEN [status |-> "x, y, or z property is missing", g |-> g]
        ELSE LET dt == element.props[ps[1]].data_type
             IN  [status |-> "OK",
                  g |-> AddAttribute([g EXCEPT !.num_points = n],
                          GeometryAttribute("POSITION", 3, dt, FALSE,
                            ReadPropertiesToAttribute(element, ps, dt, n, salt)))]

\* The position block reading x, y, z through a float reader whatever their
\* type is.
DecodePositionAsFloat(g, element, salt) ==
    LET r == DecodePositionUnchecked(g, element, salt)
        ps == PropsOf(element, PositionNames)
        n == element.num_entries
    IN  IF ~AllPresent(ps) THEN r
        ELSE IF \/ element.props[ps[1]].data_type # element.props[ps[2]].data_type
                \/ element.props[ps[2]].data_type # element.props[ps[3]].data_type
        THEN [status |-> "x, y, and z properties must have the same type",
              g |-> [g EXCEPT !.num_points = n]]
        ELSE IF element.props[ps[1]].data_type \notin {DT_FLOAT32, DT_INT32}
        THEN [status |->
                "x, y, and z properties must be of type float32 or int32",
              g |-> [g EXCEPT !.num_points = n]]
        ELSE [status |-> "OK",
              g |-> AddAttribute([g EXCEPT !.num_points = n],
                      GeometryAttribute("POSITION", 3,
                        element.props[ps[1]].data_type, FALSE,
                        ReadPropertiesToAttribute(element, ps, DT_FLOAT32, n,
                                                  salt)))]

\* The position block undoing set_num_points when a type check fails.
DecodePositionRollback(g, element, salt) ==
    LET r == DecodePositionUnchecked(g, element, salt)
        ps == PropsOf(element, PositionNames)
    IN  IF ~AllPresent(ps) THEN r
        ELSE IF \/ element.props[ps[1]].data_type # element.props[ps[2]].data_type
                \/ element.props[ps[2]].data_type # element.props[ps[3]].data_type
        THEN [status |-> "x, y, and z properties must have the same type",
              g |-> g]
        ELSE IF element.props[ps[1]].data_type \notin {DT_FLOAT32, DT_INT32}
        THEN [status |->
                "x, y, and z properties must be of type float32 or int32",
              g |-> g]
        ELSE r

\* Lines 167-207: the mandatory position attribute.
DecodePosition(g, element, salt) ==
    LET ps == PropsOf(element, PositionNames)
        n == element.num_entries
        sized == [g EXCEPT !.num_points = n]
    IN  IF ~AllPresent(ps)
        THEN [status |-> "x, y, or z property is missing", g |-> g]
        ELSE IF \/ element.props[ps[1]].data_type # element.props[ps[2]].data_type
                \/ element.props[ps[2]].data_type # element.props[ps[3]].data_type
        THEN [status |-> "x, y, and z properties must have the same type",
              g |-> sized]
        ELSE LET dt == element.props[ps[1]].data_type
             IN  IF dt # DT_FLOAT32 /\ dt # DT_INT32
                 THEN [status |->
                         "x, y, and z properties must be of type float32 or int32",
                       g |-> sized]
                 ELSE [status |-> "OK",
                       g |-> AddAttribute(sized,
                               GeometryAttribute("POSITION", 3, dt, FALSE,
                                 ReadPropertiesToAttribute(element, ps, dt, n,
                                                           salt)))]

\* An optional group that only tests presence, not the type.
DecodeFloatGroupUntyped(g, element, names, semantic, salt) ==
    LET ps == PropsOf(element, names)
    IN  IF AllPresent(ps)
        THEN AddAttribute(g,
               GeometryAttribute(semantic, Len(names), DT_FLOAT32, FALSE,
                 ReadPropertiesToAttribute(element, ps, DT_FLOAT32,
                                           element.num_entries, salt)))
        ELSE g

\* The shape shared by the normal, f_dc, opacity, scale and rot blocks: all
\* properties present, all of them float32, else the block does nothing.
DecodeFloatGroup(g, element, names, semantic, salt) ==
    LET ps == PropsOf(element, names)
    IN  IF AllPresent(ps) /\ AllOfType(element, ps, DT_FLOAT32)
        THEN AddAttribute(g,
               GeometryAttribute(semantic, Len(names), DT_FLOAT32, FALSE,
                 ReadPropertiesToAttribute(element, ps, DT_FLOAT32,
                                           element.num_entries, salt)))
        ELSE g

\* What a read through an absent property may yield when it does not trap.
Garbage == {0, -1}

\* The f_rest block testing all 45 properties for presence and type.
DecodeFRestGuarded(g, element, salt) ==
    { [crashed |-> FALSE, ub |-> FALSE,
       g |-> DecodeFloatGroup(g, element, FRestNames, "FREST", salt)] }

\* Lines 293-468: the 45 f_rest properties.  Only f_rest_0..2 are tested;
\* a PlyPropertyReader<float> is then made for each of the 45 lookups and
\* read for every vertex.  A reader on an absent property dereferences a
\* null pointer: the decode traps there, or goes on with whatever it read.
DecodeFRest(g, element, salt) ==
    LET ps == PropsOf(element, FRestNames)
        n == element.num_entries
        value(k, i, junk) ==
            IF ps[k] = 0 THEN junk
            ELSE ReadValue(element, ps[k], DT_FLOAT32, i - 1, salt)
        added(junk) ==
            AddAttribute(g,
              GeometryAttribute("FREST", 45, DT_FLOAT32, FALSE,
                [i \in 1..n |-> [k \in DOMAIN ps |-> value(k, i, junk)]]))
    IN  IF ~AllPresent(SubSeq(ps, 1, 3))
        THEN { [crashed |-> FALSE, ub |-> FALSE, g |-> g] }
        ELSE IF AllPresent(ps)
        THEN { [crashed |-> FALSE, ub |-> FALSE, g |-> added(0)] }
        ELSE { [crashed |-> TRUE, ub |-> TRUE, g |-> g] }
             \cup { [crashed |-> FALSE, ub |-> TRUE, g |-> added(junk)] :
                    junk \in Garbage }

\* The colour channels that are present, in the order red, green, blue, alpha.
PresentColors(element) ==
    SelectSeq(PropsOf(element, ColorNames), LAMBDA p : p # 0)

ColorTypeError(name) == "Type of '" \o name \o "' property must be uint8"

\* The colour block reading its channels in the element's property order.
DecodeColorByFileOrder(g, element, salt) ==
    LET here == { p \in DOMAIN element.props :
                    element.props[p].name \in Range(ColorNames) }
        ordered == SelectSeq([p \in DOMAIN element.props |-> p],
                             LAMBDA p : p \in here)
    IN  IF ordered = << >> THEN [status |-> "OK", g |-> g]
        ELSE [status |-> "OK",
              g |-> AddAttribute(g,
                      GeometryAttribute("COLOR", Len(ordered), DT_UINT8, TRUE,
                        ReadPropertiesToAttribute(element, ordered, DT_UINT8,
                                                  element.num_entries, salt)))]

\* The colour block reporting the last mistyped channel instead of the first.
DecodeColorLastBad(g, element, salt) ==
    LET readers == PresentColors(element)
        bad == { k \in DOMAIN readers :
                   element.props[readers[k]].data_type # DT_UINT8 }
    IN  IF Len(readers) = 0 THEN [status |-> "OK", g |-> g]
        ELSE IF bad # {}
        THEN LET last == CHOOSE k \in bad : \A j \in bad : j <= k
             IN  [status |-> ColorTypeError(element.props[readers[last]].name),
                  g |-> g]
        ELSE [status |-> "OK",
              g |-> AddAttribute(g,
                      GeometryAttribute("COLOR", Len(readers), DT_UINT8, TRUE,
                        ReadPropertiesToAttribute(element, readers, DT_UINT8,
                                                  element.num_entries, salt)))]

\* Lines 562-642: the colour attribute over the present channels.
DecodeColor(g, element, salt) ==
    LET readers == PresentColors(element)
        num_colors == Len(readers)
        bad == { k \in DOMAIN readers :
                   element.props[readers[k]].data_type # DT_UINT8 }
    IN  IF num_colors = 0 THEN [status |-> "OK", g |-> g]
        ELSE IF bad # {}
        THEN LET first == CHOOSE k \in bad : \A j \in bad : k <= j
             IN  [status |-> ColorTypeError(element.props[readers[first]].name),
                  g |-> g]
        ELSE [status |-> "OK",
              g |-> AddAttribute(g,
                      GeometryAttribute("COLOR", num_colors, DT_UINT8, TRUE,
                        ReadPropertiesToAttribute(element, readers, DT_UINT8,
                                                  element.num_entries, salt)))]

----------------------------------------------------------------------------
(* The documents the buffer may hold.                                      *)

Prop(name, dt) == [name |-> name, data_type |-> dt]

\* The properties of one group: cfg[k] is the type of names[k], or "absent".
MakeProps(names, cfg) ==
    LET kept == SelectSeq([k \in DOMAIN names |-> k],
                          LAMBDA k : cfg[k] # "absent")
    IN  [j \in DOMAIN kept |-> Prop(names[kept[j]], cfg[kept[j]])]

Uniform(names, t) == [k \in DOMAIN names |-> t]

Reverse(s) == [k \in DOMAIN s |-> s[Len(s) + 1 - k]]

VertexElement(n, props) == [present |-> TRUE, num_entries |-> n, props |-> props]

\* Per group: absent, complete, last property missing, first property int32.
CoarseConfigs(names) ==
    { Uniform(names, "absent"), Uniform(names, DT_FLOAT32),
      [Uniform(names, DT_FLOAT32) EXCEPT ![1] = DT_INT32] }
    \cup IF Len(names) > 1
         THEN { [Uniform(names, DT_FLOAT32) EXCEPT ![Len(names)] = "absent"] }
         ELSE {}

\* Per group: complete but for one property, which is missing or mistyped.
FineConfigs(names) ==
    { [Uniform(names, DT_FLOAT32) EXCEPT ![k] = t] :
        k \in DOMAIN names, t \in {"absent", DT_INT32, DT_UINT8} }

XyzFloat == MakeProps(PositionNames, Uniform(PositionNames, DT_FLOAT32))

Full(names) == MakeProps(names, Uniform(names, DT_FLOAT32))

\* x, y, z in every combination of absence and type.
PositionShapes ==
    { MakeProps(PositionNames, cfg) \o rest :
        cfg \in [DOMAIN PositionNames -> {"absent"} \cup DataTypes],
        rest \in { << >>, Full(OpacityNames) \o << Prop("red", DT_UINT8) >> } }

\* The float groups against each other.
GroupShapes ==
    { XyzFloat \o MakeProps(NormalNames, a) \o MakeProps(FdcNames, b)
        \o MakeProps(OpacityNames, c) \o MakeProps(ScaleNames, d)
        \o MakeProps(RotNames, e) :
        a \in CoarseConfigs(NormalNames), b \in CoarseConfigs(FdcNames),
        c \in CoarseConfigs(OpacityNames), d \in CoarseConfigs(ScaleNames),
        e \in CoarseConfigs(RotNames) }
    \cup { XyzFloat \o MakeProps(NormalNames, a) \o Full(FdcNames)
             \o Full(OpacityNames) \o Full(ScaleNames) \o Full(RotNames) :
             a \in FineConfigs(NormalNames) }
    \cup { XyzFloat \o Full(NormalNames) \o MakeProps(FdcNames, b)
             \o Full(OpacityNames) \o Full(ScaleNames) \o Full(RotNames) :
             b \in FineConfigs(FdcNames) }
    \cup { XyzFloat \o Full(NormalNames) \o Full(FdcNames)
             \o Full(OpacityNames) \o MakeProps(ScaleNames, d) \o Full(RotNames) :
             d \in FineConfigs(ScaleNames) }
    \cup { XyzFloat \o Full(NormalNames) \o Full(FdcNames)
             \o Full(OpacityNames) \o Full(ScaleNames) \o MakeProps(RotNames, e) :
             e \in FineConfigs(RotNames) }

\* The f_rest bank: complete in each type, one property missing or mistyped,
\* only the three tested properties, or none.
FRestConfigs ==
    { Uniform(FRestNames, t) : t \in DataTypes \cup {"absent"} }
    \cup { [Uniform(FRestNames, DT_FLOAT32) EXCEPT ![k] = t] :
             k \in DOMAIN FRestNames, t \in {"absent", DT_INT32} }
    \cup { [k \in DOMAIN FRestNames |->
              IF k <= 3 THEN DT_FLOAT32 ELSE "absent"] }

FRestShapes ==
    { XyzFloat \o MakeProps(FRestNames, cfg) \o rest :
        cfg \in FRestConfigs,
        rest \in { << >>, Full(NormalNames) \o Full(OpacityNames)
                          \o << Prop("red", DT_UINT8) >> } }

\* red, green, blue, alpha in every combination of absence and type.
ColorShapes ==
    { XyzFloat \o MakeProps(ColorNames, cfg) :
        cfg \in [DOMAIN ColorNames -> {"absent", DT_UINT8, DT_FLOAT32}] }

\* Every subset of the optional groups, complete, in both file orders.
OrderShapes ==
    LET pick(b, names) == IF b THEN Full(names) ELSE << >>
        colors(b) == IF b THEN MakeProps(ColorNames,
                                         Uniform(ColorNames, DT_UINT8))
                     ELSE << >>
        shapes == { XyzFloat \o pick(b[1], NormalNames) \o pick(b[2], FdcNames)
                      \o pick(b[3], FRestNames) \o pick(b[4], OpacityNames)
                      \o pick(b[5], ScaleNames) \o pick(b[6], RotNames)
                      \o colors(b[7]) : b \in [1..7 -> BOOLEAN] }
    IN  shapes \cup { Reverse(sh) : sh \in shapes }

\* Every subset of the optional groups, complete, before a colour group
\* whose second channel is mistyped.
BadColorShapes ==
    LET pick(b, names) == IF b THEN Full(names) ELSE << >>
    IN  { XyzFloat \o pick(b[1], NormalNames) \o pick(b[2], FdcNames)
            \o pick(b[3], FRestNames) \o pick(b[4], OpacityNames)
            \o pick(b[5], ScaleNames) \o pick(b[6], RotNames)
            \o << Prop("red", DT_UINT8), Prop("green", DT_FLOAT32) >> :
            b \in [1..6 -> BOOLEAN] }

VertexShapes ==
    PositionShapes \cup GroupShapes \cup FRestShapes \cup ColorShapes
    \cup OrderShapes \cup BadColorShapes

VertexElements ==
    { VertexElement(n, sh) : n \in 0..MaxVerts, sh \in VertexShapes }

\* A polygon's index list: len consecutive point indices from start on.
IndexList(len, start) == [j \in 1..len |-> (start + j - 1) % (MaxIndex + 1)]

IndexLists == { IndexList(len, start) : len \in 0..MaxPolyLen, start \in 0..MaxIndex }

RECURSIVE SeqsUpTo(_, _)
SeqsUpTo(S, n) ==
    IF n = 0 THEN { << >> }
    ELSE LET shorter == SeqsUpTo(S, n - 1)
         IN  shorter \cup { Append(q, x) : q \in shorter, x \in S }

PolygonLists == SeqsUpTo(IndexLists, MaxPolys)

FaceProp(name, is_list, lists) ==
    [name |-> name, data_type |-> DT_INT32, is_list |-> is_list, lists |-> lists]

FaceElement(n, props) == [present |-> TRUE, num_entries |-> n, props |-> props]

\* Another list property's data for the same entries.
Shifted(lists) ==
    [i \in DOMAIN lists |->
        [j \in DOMAIN lists[i] |-> (lists[i][j] + 1) % (MaxIndex + 1)]]

\* The two accepted names, each absent, a list or a scalar property.
FaceNameConfigs == [1..2 -> {"absent", "list", "scalar"}]

FaceProps(cfg, lists) ==
    (IF cfg[1] = "absent" THEN << >>
     ELSE << FaceProp("vertex_indices", cfg[1] = "list", lists) >>)
    \o (IF cfg[2] = "absent" THEN << >>
        ELSE << FaceProp("vertex_index", cfg[2] = "list", Shifted(lists)) >>)

FaceElements ==
    { FaceElement(Len(lists), << FaceProp("vertex_indices", TRUE, lists) >>) :
        lists \in PolygonLists }
    \cup { FaceElement(Len(lists), FaceProps(cfg, lists)) :
             cfg \in FaceNameConfigs,
             lists \in SeqsUpTo({ IndexList(0, 0), IndexList(4, 0) }, 1) }

Quad == FaceElement(1, << FaceProp("vertex_indices", TRUE, << IndexList(4, 0) >>) >>)

Table(read_ok, face, vertex, salt) ==
    [read_ok |-> read_ok, face |-> face, vertex |-> vertex, salt |-> salt]

Tables ==
    { Table(TRUE, f, VertexElement(1, XyzFloat), 0) : f \in FaceElements }
    \cup { Table(TRUE, f, v, salt) :
             f \in {NoElement}, v \in VertexElements, salt \in 0..MaxSalt }
    \cup { Table(TRUE, Quad, v, 0) :
             v \in {NoElement} \cup { VertexElement(MaxVerts, sh) :
                                       sh \in PositionShapes } }
    \cup { Table(FALSE, NoElement, NoElement, 0) }

Triangle == FaceElement(1, << FaceProp("vertex_indices", TRUE, << IndexList(3, 1) >>) >>)

ScalarFace == FaceElement(1, << FaceProp("vertex_indices", FALSE, << IndexList(3, 0) >>) >>)

\* The documents handed to a decoder that is used for several calls.
CallTables ==
    { Table(TRUE, f, VertexElement(1, XyzFloat), 0) :
        f \in {NoElement, Quad, Triangle, ScalarFace} }
    \cup { Table(TRUE, Quad, NoElement, 0), Table(FALSE, NoElement, NoElement, 0),
           Table(TRUE, Quad,
                 VertexElement(1, MakeProps(PositionNames,
                                    << DT_FLOAT32, DT_FLOAT32, DT_INT32 >>)), 0),
           Table(TRUE, NoElement,
                 VertexElement(1, XyzFloat \o << Prop("red", DT_FLOAT32) >>), 0) }

----------------------------------------------------------------------------
(* The decoder.                                                            *)

Init ==
    /\ table \in Tables
    /\ geom = << >>
    /\ out_mesh_ = 0
    /\ out_point_cloud_ = 0
    /\ pc = "Idle"
    /\ status = "none"
    /\ calls_left = 1
    /\ face_bound = -1
    /\ set_face_ids = << >>
    /\ steps = << >>
    /\ ub = FALSE

\* return <status>; from anywhere inside DecodeInternal
Return(st) ==
    /\ pc' = "Idle"
    /\ status' = st

\* The caller hands in a geometry it has just allocated, and a buffer: the
\* first call's document is the one chosen initially, every later call
\* brings its own.
Enter ==
    /\ pc = "Idle"
    /\ calls_left > 0
    /\ calls_left' = calls_left - 1
    /\ geom' = Append(geom, EmptyGeometry)
    /\ table' \in (IF geom = << >> THEN {table} ELSE CallTables)
    /\ face_bound' = -1
    /\ set_face_ids' = << >>
    /\ steps' = << >>
    /\ UNCHANGED ub

\* DecodeFromBuffer(DecoderBuffer *, PointCloud *)
DecodeFromBufferPointCloud ==
    /\ Enter
    /\ out_point_cloud_' = Len(geom) + 1
    /\ pc' = "TableRead"
    /\ status' = "pending"
    /\ UNCHANGED out_mesh_

\* DecodeFromBuffer(DecoderBuffer *, Mesh *)
DecodeFromBufferMesh ==
    /\ Enter
    /\ out_mesh_' = Len(geom) + 1
    /\ out_point_cloud_' = Len(geom) + 1
    /\ pc' = "TableRead"
    /\ status' = "pending"

\* DecodeFromFile(const std::string &, PointCloud *)
DecodeFromFilePointCloud ==
    /\ Enter
    /\ \E file_ok \in BOOLEAN :
         IF file_ok
         THEN /\ out_point_cloud_' = Len(geom) + 1
              /\ pc' = "TableRead"
              /\ status' = "pending"
         ELSE /\ Return("Unable to read input file.")
              /\ UNCHANGED out_point_cloud_
    /\ UNCHANGED out_mesh_

\* DecodeFromFile(const std::string &, Mesh *)
DecodeFromFileMesh ==
    /\ Enter
    /\ out_mesh_' = Len(geom) + 1
    /\ \E file_ok \in BOOLEAN :
         IF file_ok
         THEN /\ out_point_cloud_' = Len(geom) + 1
              /\ pc' = "TableRead"
              /\ status' = "pending"
         ELSE /\ Return("Unable to read input file.")
              /\ UNCHANGED out_point_cloud_

\* DecodeInternal going on after a failed ply_reader.Read.
TableReadUnchecked ==
    /\ pc = "TableRead"
    /\ steps' = Append(steps, "TableRead")
    /\ pc' = IF out_mesh_ # 0 THEN "FaceDecode" ELSE "Position"
    /\ status' = IF table.read_ok THEN status ELSE "Ply read error"
    /\ UNCHANGED << table, geom, out_mesh_, out_point_cloud_, calls_left,
                    face_bound, set_face_ids, ub >>

\* DecodeInternal: ply_reader.Read(buffer()) and the branch on out_mesh_
TableRead ==
    /\ pc = "TableRead"
    /\ steps' = Append(steps, "TableRead")
    /\ IF ~table.read_ok
       THEN Return("Ply read error")
       ELSE /\ pc' = IF out_mesh_ # 0 THEN "FaceDecode" ELSE "Position"
            /\ UNCHANGED status
    /\ UNCHANGED << table, geom, out_mesh_, out_point_cloud_, calls_left,
                    face_bound, set_face_ids, ub >>

\* DecodeInternal: DecodeFaceData(ply_reader.GetElementByName("face"))
FaceDecode ==
    /\ pc = "FaceDecode"
    /\ steps' = Append(steps, "FaceDecode")
    /\ LET r == DecodeFaceData(GetElementByName(table, "face"),
                               geom[out_mesh_].faces)
       IN  /\ geom' = [geom EXCEPT ![out_mesh_].faces = r.faces]
           /\ face_bound' = r.bound
           /\ set_face_ids' = r.ids
           /\ ub' = (ub \/ r.oob)
           /\ IF r.status # "OK"
              THEN Return(r.status)
              ELSE pc' = "Position" /\ UNCHANGED status
    /\ UNCHANGED << table, out_mesh_, out_point_cloud_, calls_left >>

\* The blocks of DecodeVertexData in the order they are written, and what
\* follows the last of them.
BlocksSwapped ==
    << "Position", "Fdc", "Normal", "FRest", "Opacity", "Rot", "Scale",
       "Color", "Deduplicate" >>

Blocks ==
    << "Position", "Normal", "Fdc", "FRest", "Opacity", "Scale", "Rot",
       "Color", "Deduplicate" >>

NextBlock(here) ==
    Blocks[1 + CHOOSE k \in DOMAIN Blocks : Blocks[k] = here]

\* DecodeVertexData up to the end of the position block
Position ==
    /\ pc = "Position"
    /\ steps' = Append(steps, "Position")
    /\ LET element == GetElementByName(table, "vertex")
       IN  IF ~element.present
           THEN Return("vertex_element is null") /\ UNCHANGED geom
           ELSE LET r == DecodePosition(geom[out_point_cloud_], element,
                                        table.salt)
                IN  /\ geom' = [geom EXCEPT ![out_point_cloud_] = r.g]
                    /\ IF r.status # "OK"
                       THEN Return(r.status)
                       ELSE pc' = NextBlock("Position") /\ UNCHANGED status
    /\ UNCHANGED << table, out_mesh_, out_point_cloud_, calls_left,
                    face_bound, set_face_ids, ub >>

\* One optional float block of DecodeVertexData, then on to the next block.
FloatStep(here, names, semantic) ==
    /\ pc = here
    /\ steps' = Append(steps, here)
    /\ geom' = [geom EXCEPT ![out_point_cloud_] =
                  DecodeFloatGroup(@, GetElementByName(table, "vertex"), names,
                                   semantic, table.salt)]
    /\ pc' = NextBlock(here)
    /\ UNCHANGED << table, out_mesh_, out_point_cloud_, status, calls_left,
                    face_bound, set_face_ids, ub >>

Normal == FloatStep("Normal", NormalNames, "NORMAL")

Fdc == FloatStep("Fdc", FdcNames, "FDC")

FRest ==
    /\ pc = "FRest"
    /\ steps' = Append(steps, "FRest")
    /\ \E r \in DecodeFRest(geom[out_point_cloud_],
                            GetElementByName(table, "vertex"), table.salt) :
         /\ geom' = [geom EXCEPT ![out_point_cloud_] = r.g]
         /\ ub' = (ub \/ r.ub)
         /\ pc' = IF r.crashed THEN "Crashed" ELSE NextBlock("FRest")
    /\ UNCHANGED << table, out_mesh_, out_point_cloud_, status, calls_left,
                    face_bound, set_face_ids >>

Opacity == FloatStep("Opacity", OpacityNames, "OPACITY")

Scale == FloatStep("Scale", ScaleNames, "SCALE")

Rot == FloatStep("Rot", RotNames, "ROT")

\* The colour block and DecodeVertexData's return
Color ==
    /\ pc = "Color"
    /\ steps' = Append(steps, "Color")
    /\ LET r == DecodeColor(geom[out_point_cloud_],
                            GetElementByName(table, "vertex"), table.salt)
       IN  /\ geom' = [geom EXCEPT ![out_point_cloud_] = r.g]
           /\ IF r.status # "OK"
              THEN Return(r.status)
              ELSE pc' = NextBlock("Color") /\ UNCHANGED status
    /\ UNCHANGED << table, out_mesh_, out_point_cloud_, calls_left,
                    face_bound, set_face_ids, ub >>

\* DecodeInternal after DecodeVertexData: the deduplication of a mesh with
\* faces, and the return.  The deduplication rewrites the value storage and
\* keeps every point's values and every face; it may report failure.
Deduplicate ==
    /\ pc = "Deduplicate"
    /\ IF out_mesh_ # 0 /\ Len(geom[out_mesh_].faces) # 0
       THEN /\ steps' = Append(steps, "Deduplicate")
            /\ \E ok \in BOOLEAN :
                 Return(IF ok THEN "OK"
                        ELSE "Could not deduplicate attribute values")
       ELSE /\ Return("OK")
            /\ UNCHANGED steps
    /\ UNCHANGED << table, geom, out_mesh_, out_point_cloud_, calls_left,
                    face_bound, set_face_ids, ub >>

Next ==
    \/ DecodeFromBufferPointCloud
    \/ DecodeFromBufferMesh
    \/ DecodeFromFilePointCloud
    \/ DecodeFromFileMesh
    \/ TableRead
    \/ FaceDecode
    \/ Position
    \/ Normal
    \/ Fdc
    \/ FRest
    \/ Opacity
    \/ Scale
    \/ Rot
    \/ Color
    \/ Deduplicate

Spec == Init /\ [][Next]_vars

\* One decoder object used for up to MaxCalls calls in a row.
InitCalls ==
    /\ table \in CallTables
    /\ geom = << >>
    /\ out_mesh_ = 0
    /\ out_point_cloud_ = 0
    /\ pc = "Idle"
    /\ status = "none"
    /\ calls_left = MaxCalls
    /\ face_bound = -1
    /\ set_face_ids = << >>
    /\ steps = << >>
    /\ ub = FALSE

SpecCalls == InitCalls /\ [][Next]_vars

----------------------------------------------------------------------------
(* What the claims speak about, read off the document itself.              *)

Ran(step) == \E k \in DOMAIN steps : steps[k] = step

Returned == pc = "Idle" /\ status \notin {"none", "pending"}

Succeeded == pc = "Idle" /\ status = "OK"

TheMesh == geom[out_mesh_]

TheCloud == geom[out_point_cloud_]

TheFace == table.face

TheVertex == table.vertex

\* The face element's property of that name, as a set (empty when absent).
FaceNamed(name) == { q \in Range(TheFace.props) : q.name = name }

\* The property the faces are read from, when there is a list-valued one.
IndexListProperty ==
    IF FaceNamed("vertex_indices") # {}
    THEN FaceNamed("vertex_indices") ELSE FaceNamed("vertex_index")

HasIndexList ==
    TheFace.present /\ \E q \in IndexListProperty : q.is_list

PolygonEntries == (CHOOSE q \in IndexListProperty : TRUE).lists

\* Triangle t (0-based) of a polygon: offsets 0, t + 1, t + 2 of its list.
FanOf(list) ==
    [t \in 1..(Len(list) - 2) |-> << list[1], list[t + 1], list[t + 2] >>]

RECURSIVE FansOf(_)
FansOf(lists) ==
    IF lists = << >> THEN << >>
    ELSE (IF Len(Head(lists)) >= 3 THEN FanOf(Head(lists)) ELSE << >>)
         \o FansOf(Tail(lists))

RECURSIVE TriangleSum(_)
TriangleSum(lists) ==
    IF lists = << >> THEN 0
    ELSE (IF Len(Head(lists)) >= 3 THEN Len(Head(lists)) - 2 ELSE 0)
         + TriangleSum(Tail(lists))


\* Where the vertex element lists a property of that name (nowhere: absent).
VertexNamed(name) ==
    { k \in DOMAIN TheVertex.props : TheVertex.props[k].name = name }

\* The declared type of the vertex property of that name, or "absent".
TypeOf(name) ==
    LET hits == VertexNamed(name)
    IN  IF hits = {} THEN "absent"
        ELSE TheVertex.props[CHOOSE k \in hits : TRUE].data_type

\* The value the document stores for that property at entry i (0-based).
Stored(name, i) == DataAt(Prop(name, TypeOf(name)), i, table.salt)

\* The positions, in the output's attribute list, of the attributes of a kind.
AttrsOf(semantic) ==
    { k \in DOMAIN TheCloud.attributes :
        TheCloud.attributes[k].attribute_type = semantic }

Has(semantic) == AttrsOf(semantic) # {}

\* Which case of the position check the document is in.
XyzCase ==
    LET tx == TypeOf("x")
        ty == TypeOf("y")
        tz == TypeOf("z")
    IN  IF tx = "absent" \/ ty = "absent" \/ tz = "absent" THEN "missing"
        ELSE IF tx # ty \/ ty # tz THEN "mixed"
        ELSE IF tx # DT_FLOAT32 /\ tx # DT_INT32 THEN "odd"
        ELSE "valid"

XyzMissing == XyzCase = "missing"

XyzMixed == XyzCase = "mixed"

XyzOdd == XyzCase = "odd"

ValidXyz == XyzCase = "valid"

\* All properties of the group are there and all are float32.
GroupComplete(names) == \A n \in Range(names) : TypeOf(n) = DT_FLOAT32

\* The names the vertex element lists.
PresentNames == { TheVertex.props[k].name : k \in DOMAIN TheVertex.props }

FRestTested == {"f_rest_0", "f_rest_1", "f_rest_2"} \subseteq PresentNames

FRestNameSet == Range(FRestNames)

FRestAllPresent == FRestNameSet \subseteq PresentNames

PresentChannels == SelectSeq(ColorNames, LAMBDA c : TypeOf(c) # "absent")

Offending ==
    SelectSeq(ColorNames, LAMBDA c : TypeOf(c) \notin {"absent", DT_UINT8})

ColorErrors ==
    [ red |-> "Type of 'red' property must be uint8",
      green |-> "Type of 'green' property must be uint8",
      blue |-> "Type of 'blue' property must be uint8",
      alpha |-> "Type of 'alpha' property must be uint8" ]

GroupOrder ==
    << "POSITION", "NORMAL", "FDC", "FREST", "OPACITY", "SCALE", "ROT", "COLOR" >>

Rank(semantic) == CHOOSE k \in DOMAIN GroupOrder : GroupOrder[k] = semantic

StepOrder ==
    << "Position", "Normal", "Fdc", "FRest", "Opacity", "Scale", "Rot", "Color" >>

\* The steps of DecodeVertexData the call has run.
VertexSteps == SelectSeq(steps, LAMBDA st : st \in Range(StepOrder))

\* The current call was made through a Mesh overload: the object handed in
\* by this call is the one out_mesh_ was set to.
MeshRequested == geom # << >> /\ out_mesh_ = Len(geom)

\* The steps of one DecodeInternal in the order it is written.
CallOrder ==
    << "TableRead" >>
    \o (IF MeshRequested THEN << "FaceDecode" >> ELSE << >>)
    \o StepOrder \o << "Deduplicate" >>

\* The steps of one DecodeInternal with FaceDecode where its own test of
\* the mesh pointer puts it.
DecoderOrder ==
    << "TableRead" >>
    \o (IF out_mesh_ # 0 THEN << "FaceDecode" >> ELSE << >>)
    \o StepOrder \o << "Deduplicate" >>

LastStep == IF steps = << >> THEN "none" ELSE steps[Len(steps)]

PositionErrors ==
    { "vertex_element is null", "x, y, or z property is missing",
      "x, y, and z properties must have the same type",
      "x, y, and z properties must be of type float32 or int32" }

ColorErrorSet ==
    { ColorErrors.red, ColorErrors.green, ColorErrors.blue, ColorErrors.alpha }

Failed == pc = "Idle" /\ status \notin {"none", "pending", "OK"}

----------------------------------------------------------------------------
(* The claims.                                                             *)

\* C1: once DecodeFaceData has run on a face element with an index list, the
\* mesh's faces are the fan triangles (first index, index t+1, index t+2) of
\* the polygons with at least 3 indices, polygon by polygon and triangle by
\* triangle, written at the face indices 0, 1, 2, ... in that order.
C1_FanTriangulation ==
    (Ran("FaceDecode") /\ HasIndexList) =>
        /\ TheMesh.faces = FansOf(PolygonEntries)
        /\ set_face_ids = [k \in 1..Len(FansOf(PolygonEntries)) |-> k - 1]

\* C1 witness: a triangle followed by a pentagon, decoded into 1 + 3 faces.
C1_Witness ==
    /\ Ran("FaceDecode") /\ HasIndexList
    /\ Len(PolygonEntries) = 2
    /\ Len(PolygonEntries[1]) = 3
    /\ PolygonEntries[2] = << 1, 2, 0, 1, 2 >>
    /\ SubSeq(TheMesh.faces, 2, 4) = << <<1, 2, 0>>, <<1, 0, 1>>, <<1, 1, 2>> >>

\* C2: once DecodeFaceData has run on a face element with an index list it
\* has not failed, the mesh has as many faces as the sum of L - 2 over the
\* polygons with L >= 3 indices, that number is the bound the faces were
\* allocated with, and every SetFace index was below that bound.
C2_FaceCount ==
    (Ran("FaceDecode") /\ HasIndexList) =>
        /\ ~(pc = "Idle" /\ status = "No faces defined")
        /\ Len(TheMesh.faces) = TriangleSum(PolygonEntries)
        /\ face_bound = Len(TheMesh.faces)
        /\ \A k \in DOMAIN set_face_ids :
              0 <= set_face_ids[k] /\ set_face_ids[k] < face_bound
        /\ ~ub

\* C2 witness: a polygon with fewer than 3 indices beside one with more.
C2_Witness ==
    /\ Ran("FaceDecode") /\ HasIndexList
    /\ Len(PolygonEntries) = 2
    /\ Len(PolygonEntries[1]) = 2
    /\ Len(PolygonEntries[2]) = 4
    /\ Len(TheMesh.faces) = 2
    /\ Succeeded

\* C4: DecodeFaceData on a document without face element succeeds and the
\* mesh keeps zero faces; on a face element without a property under either
\* name, or whose property is not a list, it returns "No faces defined" with
\* no face allocated and none written.
C4_AbsentOrInvalidFaces ==
    Ran("FaceDecode") =>
        /\ ~TheFace.present =>
              /\ status # "No faces defined"
              /\ TheMesh.faces = << >>
              /\ face_bound = -1 /\ set_face_ids = << >>
        /\ (TheFace.present /\ ~HasIndexList) =>
              /\ pc = "Idle" /\ status = "No faces defined"
              /\ TheMesh.faces = << >>
              /\ face_bound = -1 /\ set_face_ids = << >>
              /\ ~Ran("Position")

\* C4 witness: a mesh decode of a document without faces has returned OK.
C4_Witness ==
    /\ out_mesh_ # 0 /\ Ran("FaceDecode") /\ ~TheFace.present
    /\ Succeeded /\ TheMesh.faces = << >> /\ TheMesh.num_points > 0

\* C4 witness of the error: the property found is a scalar.
C4_WitnessError ==
    /\ Ran("FaceDecode") /\ TheFace.present /\ IndexListProperty # {}
    /\ ~HasIndexList /\ status = "No faces defined"

\* C3: once the position block has run, x, y or z missing, of differing
\* types, or of a common type other than float32 and int32 has made the
\* decode return the matching validation error with no attribute in the
\* output; otherwise the output's first attribute is the only POSITION
\* attribute, with 3 components of the properties' type.
C3_PositionMandatory ==
    (Ran("Position") /\ TheVertex.present) =>
        LET case == XyzCase
            none == TheCloud.attributes = << >>
        IN  /\ case = "missing" =>
                  /\ pc = "Idle" /\ status = "x, y, or z property is missing"
                  /\ none
            /\ case = "mixed" =>
                  /\ pc = "Idle"
                  /\ status = "x, y, and z properties must have the same type"
                  /\ none
            /\ case = "odd" =>
                  /\ pc = "Idle"
                  /\ status =
                       "x, y, and z properties must be of type float32 or int32"
                  /\ none
            /\ case = "valid" =>
                  /\ AttrsOf("POSITION") = {1}
                  /\ TheCloud.attributes[1].num_components = 3
                  /\ TheCloud.attributes[1].data_type = TypeOf("x")
                  /\ status \notin
                       { "x, y, or z property is missing",
                         "x, y, and z properties must have the same type",
                         "x, y, and z properties must be of type float32 or int32" }

\* C3 witness: x, y, z of differing types have failed the decode.
C3_Witness ==
    /\ Ran("Position") /\ TheVertex.present /\ XyzMixed
    /\ TypeOf("x") = DT_FLOAT32 /\ TypeOf("z") = DT_INT32
    /\ status = "x, y, and z properties must have the same type"
    /\ TheCloud.attributes = << >>

\* C5: with valid x, y, z and no mistyped colour channel the decode never
\* fails in the vertex attributes, whatever optional properties are there,
\* and each of normal, f_dc, opacity, scale and rot has its attribute exactly
\* when all its properties are present and float32.
C5_OptionalGroups ==
    (Ran("Position") /\ TheVertex.present /\ ValidXyz /\ Offending = << >>) =>
        /\ pc # "Crashed" /\ ~ub
        /\ Returned =>
              status \in {"OK", "Could not deduplicate attribute values"}
        /\ Ran("Normal") => (Has("NORMAL") <=> GroupComplete(NormalNames))
        /\ Ran("Fdc") => (Has("FDC") <=> GroupComplete(FdcNames))
        /\ Ran("Opacity") => (Has("OPACITY") <=> GroupComplete(OpacityNames))
        /\ Ran("Scale") => (Has("SCALE") <=> GroupComplete(ScaleNames))
        /\ Ran("Rot") => (Has("ROT") <=> GroupComplete(RotNames))

\* The part of C5 about the five float groups alone: each has its attribute
\* exactly when all its properties are present and float32.
C5_FloatGroupsOnly ==
    (Ran("Position") /\ TheVertex.present /\ ValidXyz) =>
        /\ Ran("Normal") => (Has("NORMAL") <=> GroupComplete(NormalNames))
        /\ Ran("Fdc") => (Has("FDC") <=> GroupComplete(FdcNames))
        /\ Ran("Opacity") => (Has("OPACITY") <=> GroupComplete(OpacityNames))
        /\ Ran("Scale") => (Has("SCALE") <=> GroupComplete(ScaleNames))
        /\ Ran("Rot") => (Has("ROT") <=> GroupComplete(RotNames))

\* C6: once the f_rest block has run on a bank whose 45 properties are all
\* present but not all float32, no FREST attribute has been added and the
\* decode has not failed there.
C6_FRestTypeSkip ==
    ( /\ Ran("FRest") /\ FRestAllPresent
      /\ \E n \in Range(FRestNames) : TypeOf(n) # DT_FLOAT32 )
    => (~Has("FREST") /\ ~ub /\ pc # "Crashed")

\* C7: once the f_rest block has run: with one of f_rest_0..2 absent there is
\* no FREST attribute and nothing was dereferenced; with all 45 properties
\* present there is one FREST attribute of 45 components whose value i holds
\* the 45 properties' values at entry i (compared when the block has just
\* run and when the call has returned); with f_rest_0..2 present and a later
\* property absent the block has read through the absent property, has
\* neither skipped the group nor returned an error, and, unless the read
\* trapped, has added the 45-component attribute.
C7_FRestPresenceTest ==
    Ran("FRest") =>
        LET names == PresentNames
            tested == {"f_rest_0", "f_rest_1", "f_rest_2"} \subseteq names
            all == FRestNameSet \subseteq names
            frest == AttrsOf("FREST")
        IN  /\ ~tested => (frest = {} /\ ~ub /\ pc # "Crashed")
            /\ (tested /\ all) =>
                  /\ ~ub /\ pc # "Crashed"
                  /\ LET type == [j \in 1..45 |-> TypeOf(FRestNames[j])]
                     IN  \E k \in DOMAIN TheCloud.attributes :
                           /\ frest = {k}
                           /\ TheCloud.attributes[k].num_components = 45
                           /\ (steps[Len(steps)] = "FRest" \/ pc = "Idle") =>
                              TheCloud.attributes[k].values =
                                [i \in 1..TheVertex.num_entries |->
                                   [j \in 1..45 |->
                                      ConvertValue(type[j], DT_FLOAT32,
                                        DataAt(Prop(FRestNames[j], type[j]),
                                               i - 1, table.salt))]]
            /\ (tested /\ ~all) =>
                  /\ ub
                  /\ steps[Len(steps)] = "FRest" => pc \in {"Opacity", "Crashed"}
                  /\ pc # "Crashed" =>
                        \E k \in DOMAIN TheCloud.attributes :
                           /\ frest = {k}
                           /\ TheCloud.attributes[k].num_components = 45
                           /\ Len(TheCloud.attributes[k].values)
                                = TheVertex.num_entries

\* C7 witness: f_rest_0..2 present, f_rest_3.. absent, and the decode went on
\* with a 45-component attribute.
C7_Witness ==
    /\ Ran("FRest") /\ FRestTested /\ TypeOf("f_rest_3") = "absent"
    /\ TypeOf("f_rest_44") = "absent"
    /\ ub /\ Has("FREST") /\ TheVertex.num_entries = 2
    /\ Succeeded

\* C8: once the colour block has run on channels that are all uint8: with no
\* channel there is no COLOR attribute; otherwise there is exactly one, with
\* as many components as channels, whose value i is the tuple of the present
\* channels' values at entry i in the order red, green, blue, alpha.
C8_ColorSubset ==
    (Ran("Color") /\ Offending = << >>) =>
        IF PresentChannels = << >> THEN ~Has("COLOR")
        ELSE \E k \in DOMAIN TheCloud.attributes :
                /\ AttrsOf("COLOR") = {k}
                /\ TheCloud.attributes[k].num_components = Len(PresentChannels)
                /\ TheCloud.attributes[k].data_type = DT_UINT8
                /\ TheCloud.attributes[k].values =
                     [i \in 1..TheVertex.num_entries |->
                        [j \in DOMAIN PresentChannels |->
                           Stored(PresentChannels[j], i - 1)]]

\* C8 witness: only red and blue, two vertices, a 2-component colour.
C8_Witness ==
    /\ Ran("Color") /\ PresentChannels = << "red", "blue" >>
    /\ Offending = << >> /\ TheVertex.num_entries = 2 /\ table.salt = 0
    /\ \E k \in AttrsOf("COLOR") :
          TheCloud.attributes[k].values = << <<185, 199>>, <<188, 202>> >>

C10_GroupOrder ==
    /\ VertexSteps = SubSeq(StepOrder, 1, Len(VertexSteps))
    /\ out_point_cloud_ # 0 =>
          /\ \A j, k \in DOMAIN TheCloud.attributes :
                j < k => Rank(TheCloud.attributes[j].attribute_type)
                           < Rank(TheCloud.attributes[k].attribute_type)
          /\ Succeeded =>
                /\ Has("POSITION")
                /\ Has("NORMAL") <=> GroupComplete(NormalNames)
                /\ Has("FDC") <=> GroupComplete(FdcNames)
                /\ Has("OPACITY") <=> GroupComplete(OpacityNames)
                /\ Has("SCALE") <=> GroupComplete(ScaleNames)
                /\ Has("ROT") <=> GroupComplete(RotNames)
                /\ Has("COLOR") <=> PresentChannels # << >>

\* C10 witness: all eight groups, listed in the file from alpha back to x.
C10_Witness ==
    /\ Succeeded /\ ~ub
    /\ TheVertex.props[1].name = "alpha"
    /\ [k \in DOMAIN TheCloud.attributes |->
          TheCloud.attributes[k].attribute_type] = GroupOrder

\* The steps run so far are an initial part of `order`; while the call is
\* running no error has been recorded and the decoder stands before the next
\* step of `order`; a call that has returned an error stopped at the step the
\* error comes from, and the status is that step's error; a call that has
\* returned OK ran every step up to Deduplicate.
RunsInOrder(order) ==
    LET last == LastStep
    IN  /\ Len(steps) <= Len(order)
        /\ steps = SubSeq(order, 1, Len(steps))
        /\ pc \notin {"Idle", "Crashed"} =>
              /\ status = "pending"
              /\ pc = order[Len(steps) + 1]
        /\ Failed =>
              /\ status = "Unable to read input file." <=> steps = << >>
              /\ status = "Ply read error" <=> last = "TableRead"
              /\ status = "No faces defined" <=> last = "FaceDecode"
              /\ status \in PositionErrors <=> last = "Position"
              /\ status \in ColorErrorSet <=> last = "Color"
              /\ status = "Could not deduplicate attribute values"
                    <=> last = "Deduplicate"
        /\ Succeeded => Len(steps) >= Len(order) - 1

\* C11: every call runs its steps in the order TableRead, FaceDecode (in a
\* call for mesh output only), the vertex attribute blocks, Deduplicate;
\* while it runs no error has been recorded; an error in a step ends the call
\* there with that step's error as the status and no later step runs: a
\* table read failure runs neither face nor vertex decoding, a FaceDecode
\* failure no vertex decoding, a vertex decoding failure no deduplication.
C11_StepOrder == RunsInOrder(CallOrder)

\* The order and the absorbing error with FaceDecode where the decoder's
\* test of its mesh pointer puts it, whatever the kind of the call.
C11_OrderAsCoded == RunsInOrder(DecoderOrder)

\* C11 witness: a point-cloud call on a decoder that was handed a mesh
\* before has run FaceDecode after TableRead and has returned its error.
C11_Witness ==
    /\ Len(geom) = 2 /\ ~MeshRequested /\ Failed
    /\ steps = << "TableRead", "FaceDecode" >>
    /\ status = "No faces defined"

\* A mesh call whose faces were decoded and whose position check failed has
\* returned that error without running any later block or the deduplication.
C11_WitnessAbsorbing ==
    /\ MeshRequested /\ Failed /\ calls_left = 0
    /\ steps = << "TableRead", "FaceDecode", "Position" >>
    /\ status = "x, y, and z properties must have the same type"
    /\ Len(TheMesh.faces) = 2

\* C12: in a step of a call made through a point-cloud overload, whatever
\* calls came before it on the same decoder, DecodeFaceData has not run and
\* the face list of every geometry handed in so far is left as it was.
C12_FaceDecodeMeshOnly ==
    [][ ~MeshRequested' =>
          /\ ~Ran("FaceDecode")'
          /\ \A k \in DOMAIN geom : geom'[k].faces = geom[k].faces ]_vars

\* The same for the first call made on a decoder.
C12_FirstCall ==
    (Len(geom) = 1 /\ ~MeshRequested) =>
        (~Ran("FaceDecode") /\ geom[1].faces = << >>)

\* C12 witness: a point-cloud call on a decoder that was handed a mesh
\* before has run DecodeFaceData and left a triangle in that mesh, which has
\* no points of its own.
C12_Witness ==
    /\ Len(geom) = 2 /\ ~MeshRequested /\ Ran("FaceDecode") /\ Succeeded
    /\ geom[1].faces = << <<1, 2, 0>> >> /\ geom[1].num_points = 0
    /\ geom[2].faces = << >> /\ geom[2].num_points = 1

\* The geometry the current call was handed.
TheOutput == geom[Len(geom)]

DeduplicateError == "Could not deduplicate attribute values"

\* C13: the deduplication has run only in a call for mesh output whose face
\* and vertex decoding succeeded and whose mesh has faces; a call that got
\* past the vertex decoding and has returned ran it exactly when it was a
\* call for mesh output and its mesh has faces, so never for point-cloud
\* output and never for a mesh without faces; and the deduplication's
\* failure is the error the call returns.
C13_DeduplicateIff ==
    /\ Ran("Deduplicate") =>
          /\ MeshRequested /\ Len(TheOutput.faces) # 0
          /\ Ran("FaceDecode") /\ Ran("Color")
          /\ pc = "Idle" /\ status \in {"OK", DeduplicateError}
    /\ (Returned /\ Ran("Color") /\ status \notin ColorErrorSet) =>
          /\ Ran("Deduplicate") <=> (MeshRequested /\ Len(TheOutput.faces) # 0)
          /\ status \in {"OK", DeduplicateError}
    /\ (Returned /\ status = DeduplicateError) => Ran("Deduplicate")

\* The same with the decoder's mesh pointer in place of the kind of the
\* call: the test DecodeInternal makes.
C13_DeduplicateAsCoded ==
    /\ Ran("Deduplicate") =>
          /\ out_mesh_ # 0 /\ Len(TheMesh.faces) # 0
          /\ Ran("FaceDecode") /\ Ran("Color")
          /\ pc = "Idle" /\ status \in {"OK", DeduplicateError}
    /\ (Returned /\ Ran("Color") /\ status \notin ColorErrorSet) =>
          /\ Ran("Deduplicate") <=> (out_mesh_ # 0 /\ Len(TheMesh.faces) # 0)
          /\ status \in {"OK", DeduplicateError}
    /\ (Returned /\ status = DeduplicateError) => Ran("Deduplicate")

\* C13 witness: a point-cloud call has run the deduplication, which failed,
\* because the mesh of an earlier call has faces.
C13_Witness ==
    /\ Len(geom) = 2 /\ ~MeshRequested /\ TheOutput.faces = << >>
    /\ Ran("Deduplicate") /\ status = DeduplicateError

\* Whether the document makes the group's block add its attribute.
Matched(semantic) ==
    CASE semantic = "POSITION" -> ValidXyz
      [] semantic = "NORMAL" -> GroupComplete(NormalNames)
      [] semantic = "FDC" -> GroupComplete(FdcNames)
      [] semantic = "FREST" -> FRestTested
      [] semantic = "OPACITY" -> GroupComplete(OpacityNames)
      [] semantic = "SCALE" -> GroupComplete(ScaleNames)
      [] semantic = "ROT" -> GroupComplete(RotNames)
      [] OTHER -> FALSE

\* The groups before colour that matched, in the order of their blocks.
EarlierMatched == SelectSeq(GroupOrder, Matched)

\* The values the document stores for x, y, z, entry by entry.
StoredPositions ==
    [i \in 1..TheVertex.num_entries |->
        << Stored("x", i - 1), Stored("y", i - 1), Stored("z", i - 1) >>]

\* C14: a call that has returned an error has left in the output what was
\* written before the failing check: after a vertex decoding error in a mesh
\* call the faces decoded from a valid face element are all there (so with a
\* missing vertex element); after a position type error the point count is
\* the vertex element's entry count, and no attribute was added; after a
\* colour type error the point count is set and the output holds the
\* position attribute with its values followed by the attribute of every
\* optional group before colour that matched, each with a value per vertex.
C14_NoRollback ==
    Failed =>
        /\ (status \in PositionErrors \cup ColorErrorSet /\ MeshRequested
              /\ HasIndexList) =>
              /\ TheMesh.faces = FansOf(PolygonEntries)
              /\ face_bound = Len(TheMesh.faces)
        /\ status \in { "x, y, and z properties must have the same type",
                        "x, y, and z properties must be of type float32 or int32" }
              => /\ TheCloud.num_points = TheVertex.num_entries
                 /\ TheCloud.attributes = << >>
        /\ status \in ColorErrorSet =>
              LET atts == TheCloud.attributes
              IN  /\ TheCloud.num_points = TheVertex.num_entries
                  /\ [k \in DOMAIN atts |-> atts[k].attribute_type]
                        = EarlierMatched
                  /\ atts[1].values = StoredPositions
                  /\ \A k \in DOMAIN atts :
                        Len(atts[k].values) = TheVertex.num_entries

\* C14 witness: a colour type error with two vertices and all seven earlier
\* attributes in the output.
C14_Witness ==
    /\ Failed /\ status = "Type of 'green' property must be uint8"
    /\ TheCloud.num_points = 2 /\ Len(TheCloud.attributes) = 7
    /\ TheCloud.attributes[7].attribute_type = "ROT"
    /\ Len(TheCloud.attributes[7].values) = 2

\* A mesh call on a quad and no vertex element: the error, with two faces.
C14_WitnessFaces ==
    /\ Failed /\ MeshRequested /\ status = "vertex_element is null"
    /\ ~TheVertex.present /\ Len(TheMesh.faces) = 2

\* A position type error with the point count already set.
C14_WitnessPoints ==
    /\ Failed /\ XyzOdd
    /\ status = "x, y, and z properties must be of type float32 or int32"
    /\ TheCloud.num_points = 2 /\ TheCloud.attributes = << >>

\* C15: from the position block's success until the deduplication, the
\* point count is the vertex element's entry count N, and the position
\* attribute, of the type x, y and z have in the document, has N values, one
\* per point index 0..N-1 and no other, where value i is (x[i], y[i], z[i])
\* exactly as stored: int32 values are not passed through float.
C15_PositionValues ==
    (Ran("Position") /\ TheVertex.present /\ ValidXyz
       /\ ~Ran("Deduplicate")) =>
        LET position == TheCloud.attributes[1]
            N == TheVertex.num_entries
        IN  /\ TheCloud.num_points = N
            /\ position.attribute_type = "POSITION"
            /\ position.data_type = TypeOf("x")
            /\ position.data_type \in {DT_FLOAT32, DT_INT32}
            /\ DOMAIN position.values = 1..N
            /\ \A i \in 1..N :
                  position.values[i] =
                    << Stored("x", i - 1), Stored("y", i - 1),
                       Stored("z", i - 1) >>

\* C15 witness: two vertices with int32 coordinates above 2^24, among them
\* y[0] = 2^24 + 15, which a float cannot hold, decoded successfully.
C15_Witness ==
    /\ Succeeded /\ Ran("Color") /\ ~Ran("Deduplicate")
    /\ TypeOf("x") = DT_INT32 /\ ValidXyz /\ table.salt = 1
    /\ TheCloud.num_points = 2
    /\ TheCloud.attributes[1].values =
         << << TwoTo24 + 8, TwoTo24 + 15, TwoTo24 + 22 >>,
            << TwoTo24 + 11, TwoTo24 + 18, TwoTo24 + 25 >> >>

\* C16: once DecodeFaceData has run on a face element: a 'vertex_indices'
\* property that is not a list has made it return "No faces defined" with
\* no face in the mesh, whether or not there is a list-valued 'vertex_index'
\* beside it; a list-valued 'vertex_indices' is what the faces were read
\* from, whether or not there is a 'vertex_index' beside it; 'vertex_index'
\* is what the faces were read from only when 'vertex_indices' is absent.
C16_LookupOrder ==
    (Ran("FaceDecode") /\ TheFace.present) =>
        LET first == FaceNamed("vertex_indices")
            second == FaceNamed("vertex_index")
            refused == /\ pc = "Idle" /\ status = "No faces defined"
                       /\ TheMesh.faces = << >>
        IN  /\ \A q \in first :
                  IF q.is_list THEN /\ TheMesh.faces = FansOf(q.lists)
                                    /\ status # "No faces defined"
                  ELSE refused
            /\ first = {} =>
                  /\ \A q \in second :
                        IF q.is_list THEN /\ TheMesh.faces = FansOf(q.lists)
                                          /\ status # "No faces defined"
                        ELSE refused
                  /\ second = {} => refused

\* C16 witness: 'vertex_indices' is a scalar property, 'vertex_index' lists
\* a quad, and the decode has returned "No faces defined".
C16_Witness ==
    /\ Ran("FaceDecode") /\ TheFace.present
    /\ \E q \in FaceNamed("vertex_indices") : ~q.is_list
    /\ \E q \in FaceNamed("vertex_index") :
          q.is_list /\ q.lists = << << 1, 2, 0, 1 >> >>
    /\ status = "No faces defined" /\ TheMesh.faces = << >>

\* Both names list a quad, with different indices: the faces are those of
\* 'vertex_indices'.
C16_WitnessBoth ==
    /\ Ran("FaceDecode") /\ TheFace.present
    /\ \E q \in FaceNamed("vertex_indices") :
          q.is_list /\ q.lists = << << 0, 1, 2, 0 >> >>
    /\ \E q \in FaceNamed("vertex_index") :
          q.is_list /\ q.lists = << << 1, 2, 0, 1 >> >>
    /\ TheMesh.faces = << <<0, 1, 2>>, <<0, 2, 0>> >>

====
